---- MODULE Spec2Model ----
(***************************************************************************)
(* A model of CrosswordCreator (src/generate.py): node consistency, AC-3   *)
(* and backtracking search over a crossword constraint satisfaction        *)
(* problem.                                                                *)
(*                                                                         *)
(* Words are sequences of letters.  Python indexes words from 0, TLA+      *)
(* indexes sequences from 1: an overlap (i, j) of the code is the pair     *)
(* <<i + 1, j + 1>> here.                                                  *)
(***************************************************************************)
EXTENDS Naturals, Sequences, FiniteSets

VARIABLES
    crossword,   \* self.crossword: [length, overlaps, words], never written
    domains,     \* self.domains: variable -> set of words
    pc,          \* position inside solve()
    queue,       \* the worklist of ac3()
    ac3_ret,     \* what ac3() returned: "pending", "True" or "False"
    assignment,  \* the one dict that backtrack() mutates
    stack,       \* the active calls of backtrack() that are inside their loop:
                 \* the variable, the values iterated, the position in them,
                 \* and the assignment the call was entered with
    result,      \* what solve() returned
    call         \* the last call of a primitive: its arguments and its return

vars == <<crossword, domains, pc, queue, ac3_ret, assignment, stack, result, call>>

----------------------------------------------------------------------------
(* Bounds of the model. *)

\* the largest number of words in a vocabulary
MaxVocab == 3

\* the variables (slots) of a puzzle, in the order of the dict self.domains
Vars == {1, 2, 3}

\* the slot lengths and word lengths that occur
Lengths == {1, 2}

Letters == {"a", "b"}

\* overlaps[x, y] of a pair that does not cross
None == <<>>

AllWords == UNION {[1..n -> Letters] : n \in Lengths}

Vocabularies == {W \in SUBSET AllWords : Cardinality(W) <= MaxVocab}

----------------------------------------------------------------------------
(* The puzzle model (crossword.py), which the solver only reads. *)

UPairs == {p \in Vars \X Vars : p[1] < p[2]}

Arcs == {p \in Vars \X Vars : p[1] # p[2]}

Cells == {None} \cup (Lengths \X Lengths)

\* overlap(x, y) and overlap(y, x) name the same cell with the indices swapped
Swap(o) == IF o = None THEN None ELSE <<o[2], o[1]>>

OverlapsOf(ov) ==
    [p \in Arcs |-> IF p[1] < p[2] THEN ov[p] ELSE Swap(ov[<<p[2], p[1]>>])]

\* An internally consistent puzzle: the indices of an overlap lie inside both
\* slots, two slots that cross the same slot cross it in different cells, and
\* slots that cross have different directions.
ValidStructure(len, o) ==
    /\ \A p \in Arcs : o[p] # None => o[p][1] <= len[p[1]] /\ o[p][2] <= len[p[2]]
    /\ \A x \in Vars : \A y, z \in Vars \ {x} :
          (y # z /\ o[<<x, y>>] # None /\ o[<<x, z>>] # None)
              => o[<<x, y>>][1] # o[<<x, z>>][1]
    /\ \E dir \in [Vars -> {"ACROSS", "DOWN"}] :
          \A p \in Arcs : o[p] # None => dir[p[1]] # dir[p[2]]

Structures ==
    {s \in [length : [Vars -> Lengths], overlaps : {OverlapsOf(ov) : ov \in [UPairs -> Cells]}] :
        ValidStructure(s.length, s.overlaps)}

neighbors(x) == {y \in Vars \ {x} : crossword.overlaps[<<x, y>>] # None}

----------------------------------------------------------------------------
(* Helpers. *)

Min(S) == CHOOSE m \in S : \A n \in S : m <= n

Max(S) == CHOOSE m \in S : \A n \in S : m >= n

\* every order in which a set can be iterated
Orders(S) ==
    {s \in [1..Cardinality(S) -> S] : \A a, b \in 1..Cardinality(S) : a # b => s[a] # s[b]}

EmptyAssignment == [v \in {} |-> <<>>]

Assign(asg, var, val) ==
    [v \in (DOMAIN asg) \cup {var} |-> IF v = var THEN val ELSE asg[v]]

\* a variant that leaves the tentative assignment in place
Del_kept(asg, var) == asg

Del(asg, var) == [v \in (DOMAIN asg) \ {var} |-> asg[v]]

----------------------------------------------------------------------------
(* The primitives of CrosswordCreator, as functions of the domains. *)

\* a variant that compares the lengths with < and so keeps the shorter words
enforce_node_consistency_keeps_short(dom) ==
    [key \in DOMAIN dom |->
        dom[key] \ {value \in dom[key] : crossword.length[key] < Len(value)}]

enforce_node_consistency(dom) ==
    [key \in DOMAIN dom |->
        dom[key] \ {value \in dom[key] : crossword.length[key] # Len(value)}]

\* a variant that also removes from the domain of y the words without a
\* support in the domain of x
revise_both_sides(dom, x, y) ==
    IF crossword.overlaps[<<x, y>>] = None
    THEN [revised |-> FALSE, domains |-> dom]
    ELSE LET i == crossword.overlaps[<<x, y>>][1]
             j == crossword.overlaps[<<x, y>>][2]
             remove == {val_x \in dom[x] : \A val_y \in dom[y] : val_x[i] # val_y[j]}
             remove_y == {val_y \in dom[y] : \A val_x \in dom[x] : val_x[i] # val_y[j]}
         IN  [revised |-> remove # {},
              domains |-> [dom EXCEPT ![x] = @ \ remove, ![y] = @ \ remove_y]]

\* a variant that removes a word as soon as one word of y disagrees with it
revise_any_mismatch(dom, x, y) ==
    IF crossword.overlaps[<<x, y>>] = None
    THEN [revised |-> FALSE, domains |-> dom]
    ELSE LET i == crossword.overlaps[<<x, y>>][1]
             j == crossword.overlaps[<<x, y>>][2]
             remove == {val_x \in dom[x] : \E val_y \in dom[y] : val_x[i] # val_y[j]}
         IN  [revised |-> remove # {},
              domains |-> [dom EXCEPT ![x] = @ \ remove]]

revise(dom, x, y) ==
    IF crossword.overlaps[<<x, y>>] = None
    THEN [revised |-> FALSE, domains |-> dom]
    ELSE LET i == crossword.overlaps[<<x, y>>][1]
             j == crossword.overlaps[<<x, y>>][2]
             remove == {val_x \in dom[x] : \A val_y \in dom[y] : val_x[i] # val_y[j]}
         IN  [revised |-> remove # {},
              domains |-> [dom EXCEPT ![x] = @ \ remove]]

\* the queue ac3() starts from when it is given no arcs: every ordered pair of
\* distinct variables, in the order of the two nested loops
RECURSIVE InitialQueue(_, _)
InitialQueue(x, y) ==
    IF x > Cardinality(Vars) THEN <<>>
    ELSE IF y > Cardinality(Vars) THEN InitialQueue(x + 1, 1)
    ELSE IF x # y THEN <<<<x, y>>>> \o InitialQueue(x, y + 1)
    ELSE InitialQueue(x, y + 1)

\* a variant that appends no arc after a revision
Requeue_nothing(X, Y) == {<<>>}

\* the arcs ac3() appends after revise(X, Y) shrank domains[X], in each order
\* in which the set neighbors(X) can be iterated
Requeue(X, Y) ==
    {[k \in DOMAIN zs |-> <<zs[k], X>>] : zs \in Orders(neighbors(X) \ {Y})}

\* a variant that reads queue[0] and leaves it in the queue
QueueAfterPop_kept(q) == q

QueueAfterPop(q) == Tail(q)

\* revise(x, y) can raise IndexError: it compares val_x[i] with val_y[j] for
\* the words of the two domains, in the order the sets are iterated, and one
\* of the words is too short for its index
revise_raises(dom, x, y) ==
    /\ crossword.overlaps[<<x, y>>] # None
    /\ dom[x] # {}
    /\ dom[y] # {}
    /\ \/ \E val_x \in dom[x] : Len(val_x) < crossword.overlaps[<<x, y>>][1]
       \/ \E val_y \in dom[y] : Len(val_y) < crossword.overlaps[<<x, y>>][2]

\* the loop of ac3() from the worklist q on, as one call: its return value and
\* the domains it leaves.  A variable has at most two neighbours here, so a
\* revision appends at most one arc and the order of neighbors(X) is immaterial.
RECURSIVE ac3_loop(_, _)
ac3_loop(dom, q) ==
    IF q = <<>> THEN [ret |-> TRUE, domains |-> dom]
    ELSE LET X == Head(q)[1]
             Y == Head(q)[2]
             r == revise(dom, X, Y)
         IN  IF r.revised
             THEN IF r.domains[X] = {}
                  THEN [ret |-> FALSE, domains |-> r.domains]
                  ELSE ac3_loop(r.domains,
                                QueueAfterPop(q) \o (CHOOSE zs \in Requeue(X, Y) : TRUE))
             ELSE ac3_loop(r.domains, QueueAfterPop(q))

\* ac3() called with no arcs
ac3(dom) == ac3_loop(dom, InitialQueue(1, 1))

\* a variant that looks for the variables among the words of the assignment,
\* where no variable is ever found
assignment_complete_by_values(asg) == DOMAIN domains = {}

assignment_complete(asg) == \A v \in DOMAIN domains : v \in DOMAIN asg

\* a variant without the comparison at the overlaps
consistent_no_overlap(asg) ==
    /\ \A key \in DOMAIN asg : crossword.length[key] = Len(asg[key])
    /\ \A k1, k2 \in DOMAIN asg : k1 # k2 => asg[k1] # asg[k2]

\* a variant without the check that the words are distinct
consistent_no_distinct(asg) ==
    /\ \A key \in DOMAIN asg : crossword.length[key] = Len(asg[key])
    /\ \A key \in DOMAIN asg : \A n \in neighbors(key) :
          \A n_val \in domains[n] :
              asg[key][crossword.overlaps[<<key, n>>][1]]
                  = n_val[crossword.overlaps[<<key, n>>][2]]

consistent(asg) ==
    /\ \A key \in DOMAIN asg : crossword.length[key] = Len(asg[key])
    /\ \A k1, k2 \in DOMAIN asg : k1 # k2 => asg[k1] # asg[k2]
    /\ \A key \in DOMAIN asg : \A n \in neighbors(key) :
          \A n_val \in domains[n] :
              asg[key][crossword.overlaps[<<key, n>>][1]]
                  = n_val[crossword.overlaps[<<key, n>>][2]]

\* consistent() can raise IndexError: a word in the domain of a neighbour of
\* an assigned variable is too short for its overlap index
consistent_raises(asg) ==
    \E key \in DOMAIN asg : \E n \in neighbors(key) : \E n_val \in domains[n] :
        /\ crossword.length[key] = Len(asg[key])
        /\ Len(n_val) < crossword.overlaps[<<key, n>>][2]

\* the count order_domain_values() computes for val, and then does not use
values_count(var, val) ==
    Cardinality({n \in neighbors(var) : \E n_val \in domains[n] : val = n_val})

\* what order_domain_values() can return: a dict whose keys are the words of
\* domains[var] in the order the set was iterated; sorted() builds a new list
\* that is dropped
order_domain_values(var, asg) == Orders(domains[var])

\* select_unassigned_variable() raises ValueError: min() of no values
select_raises(asg) == (DOMAIN domains) \ (DOMAIN asg) = {}

\* a variant that returns a variable with the fewest remaining values without
\* looking at the degrees
select_unassigned_variable_no_degree(asg) ==
    LET unassigned == (DOMAIN domains) \ (DOMAIN asg)
        min_val == Min({Cardinality(domains[v]) : v \in unassigned})
    IN  {v \in unassigned : Cardinality(domains[v]) = min_val}

\* what select_unassigned_variable() can return: keys[0], where keys is built
\* by iterating a set
select_unassigned_variable(asg) ==
    LET unassigned == (DOMAIN domains) \ (DOMAIN asg)
        min_val == Min({Cardinality(domains[v]) : v \in unassigned})
        keys == {v \in unassigned : Cardinality(domains[v]) = min_val}
        max_val == Max({Cardinality(neighbors(key)) : key \in keys})
    IN  IF Cardinality(keys) = 1 THEN keys
        ELSE {key \in keys : Cardinality(neighbors(key)) = max_val}

----------------------------------------------------------------------------
(* solve(), one action per step. *)

NoCall == [op |-> "none"]

Running == [kind |-> "running"]

NoSolution == [kind |-> "None"]

Solution(asg) == [kind |-> "assignment", value |-> asg]

Top == stack[Len(stack)]

Init ==
    /\ \E s \in Structures, w \in Vocabularies :
          crossword = [length |-> s.length, overlaps |-> s.overlaps, words |-> w]
    /\ domains = [var \in Vars |-> crossword.words]
    /\ pc = "solve"
    /\ queue = <<>>
    /\ ac3_ret = "pending"
    /\ assignment = EmptyAssignment
    /\ stack = <<>>
    /\ result = Running
    /\ call = NoCall

EnforceNodeConsistency ==
    /\ pc = "solve"
    /\ domains' = enforce_node_consistency(domains)
    /\ call' = [op |-> "enforce_node_consistency", pre |-> domains]
    /\ pc' = "ac3"
    /\ UNCHANGED <<crossword, queue, ac3_ret, assignment, stack, result>>

Ac3Begin ==
    /\ pc = "ac3"
    /\ queue' = InitialQueue(1, 1)
    /\ pc' = "ac3_loop"
    /\ UNCHANGED <<crossword, domains, ac3_ret, assignment, stack, result, call>>

Ac3Step ==
    /\ pc = "ac3_loop"
    /\ queue # <<>>
    /\ LET X == Head(queue)[1]
           Y == Head(queue)[2]
           r == revise(domains, X, Y)
       IN  IF revise_raises(domains, X, Y)
           THEN /\ pc' = "fault"
                /\ UNCHANGED <<domains, queue, ac3_ret, call>>
           ELSE /\ domains' = r.domains
                /\ call' = [op |-> "revise", x |-> X, y |-> Y, pre |-> domains,
                            ret |-> r.revised]
                /\ IF r.revised /\ r.domains[X] = {}
                   THEN /\ ac3_ret' = "False"
                        /\ pc' = "backtrack"
                        /\ queue' = QueueAfterPop(queue)
                   ELSE /\ UNCHANGED <<ac3_ret, pc>>
                        /\ IF r.revised
                           THEN \E zs \in Requeue(X, Y) :
                                   queue' = QueueAfterPop(queue) \o zs
                           ELSE queue' = QueueAfterPop(queue)
    /\ UNCHANGED <<crossword, assignment, stack, result>>

Ac3End ==
    /\ pc = "ac3_loop"
    /\ queue = <<>>
    /\ ac3_ret' = "True"
    /\ pc' = "backtrack"
    /\ UNCHANGED <<crossword, domains, queue, assignment, stack, result, call>>

\* a call of backtrack() up to its loop
BacktrackEnter ==
    /\ pc = "backtrack"
    /\ IF assignment_complete(assignment)
       THEN /\ result' = Solution(assignment)
            /\ pc' = "done"
            /\ stack' = <<>>
       ELSE IF select_raises(assignment)
       THEN /\ pc' = "fault"
            /\ UNCHANGED <<stack, result>>
       ELSE /\ \E var \in select_unassigned_variable(assignment) :
               \E values \in order_domain_values(var, assignment) :
                  stack' = Append(stack, [var |-> var, values |-> values, k |-> 1,
                                          entry |-> assignment])
            /\ pc' = "bt_loop"
            /\ UNCHANGED result
    /\ UNCHANGED <<crossword, domains, queue, ac3_ret, assignment, call>>

\* a variant that narrows the domain of the variable to the value it assigns
BacktrackTry_narrowing ==
    /\ pc = "bt_loop"
    /\ Top.k <= Len(Top.values)
    /\ LET var == Top.var
           val == Top.values[Top.k]
           tentative == Assign(assignment, var, val)
           ok == consistent(tentative)
       IN  /\ call' = [op |-> "consistent", assignment |-> tentative, ret |-> ok]
           /\ IF ok
              THEN /\ assignment' = tentative
                   /\ domains' = [domains EXCEPT ![var] = {val}]
                   /\ pc' = "backtrack"
                   /\ UNCHANGED stack
              ELSE /\ assignment' = Del(tentative, var)
                   /\ stack' = [stack EXCEPT ![Len(stack)].k = @ + 1]
                   /\ UNCHANGED <<pc, domains>>
    /\ UNCHANGED <<crossword, queue, ac3_ret, result>>

\* one iteration of the loop of the innermost call, up to the recursive call
BacktrackTry ==
    /\ pc = "bt_loop"
    /\ Top.k <= Len(Top.values)
    /\ LET var == Top.var
           val == Top.values[Top.k]
           tentative == Assign(assignment, var, val)
           ok == consistent(tentative)
       IN  IF consistent_raises(tentative)
           THEN /\ pc' = "fault"
                /\ assignment' = tentative
                /\ UNCHANGED <<stack, call>>
           ELSE /\ call' = [op |-> "consistent", assignment |-> tentative, ret |-> ok]
                /\ IF ok
                   THEN /\ assignment' = tentative
                        /\ pc' = "backtrack"
                        /\ UNCHANGED stack
                   ELSE /\ assignment' = Del(tentative, var)
                        /\ stack' = [stack EXCEPT ![Len(stack)].k = @ + 1]
                        /\ UNCHANGED pc
    /\ UNCHANGED <<crossword, domains, queue, ac3_ret, result>>

\* a variant in which the caller tries the same value again
BacktrackExhausted_retries ==
    /\ pc = "bt_loop"
    /\ Top.k > Len(Top.values)
    /\ IF Len(stack) = 1
       THEN /\ stack' = <<>>
            /\ result' = NoSolution
            /\ pc' = "done"
            /\ UNCHANGED assignment
       ELSE /\ stack' = SubSeq(stack, 1, Len(stack) - 1)
            /\ assignment' = Del(assignment, stack[Len(stack) - 1].var)
            /\ UNCHANGED <<result, pc>>
    /\ UNCHANGED <<crossword, domains, queue, ac3_ret, call>>

\* the innermost call ran out of values and returns None; its caller deletes
\* its own tentative assignment and goes on with its next value
BacktrackExhausted ==
    /\ pc = "bt_loop"
    /\ Top.k > Len(Top.values)
    /\ IF Len(stack) = 1
       THEN /\ stack' = <<>>
            /\ result' = NoSolution
            /\ pc' = "done"
            /\ UNCHANGED assignment
       ELSE /\ stack' = [SubSeq(stack, 1, Len(stack) - 1)
                            EXCEPT ![Len(stack) - 1].k = @ + 1]
            /\ assignment' = Del(assignment, stack[Len(stack) - 1].var)
            /\ UNCHANGED <<result, pc>>
    /\ UNCHANGED <<crossword, domains, queue, ac3_ret, call>>

Next ==
    \/ EnforceNodeConsistency
    \/ Ac3Begin
    \/ Ac3Step
    \/ Ac3End
    \/ BacktrackEnter
    \/ BacktrackTry
    \/ BacktrackExhausted

Spec == Init /\ [][Next]_vars

\* solve() is straight-line code: a step that can run, runs
LiveSpec == Spec /\ WF_vars(Next)

----------------------------------------------------------------------------
(* The primitives called on their own, any number of times and in any      *)
(* order, each call as one action.  revise() and ac3() index the words at  *)
(* the overlaps, so they are called once the domains are node consistent.  *)

CallEnforceNodeConsistency ==
    /\ pc \in {"solve", "called"}
    /\ domains' = enforce_node_consistency(domains)
    /\ call' = [op |-> "enforce_node_consistency", pre |-> domains,
                again |-> (pc = "called")]
    /\ pc' = "called"
    /\ UNCHANGED <<crossword, queue, ac3_ret, assignment, stack, result>>

CallRevise ==
    /\ pc = "called"
    /\ \E arc \in Arcs :
          LET r == revise(domains, arc[1], arc[2])
          IN  /\ domains' = r.domains
              /\ call' = [op |-> "revise", x |-> arc[1], y |-> arc[2],
                          pre |-> domains, ret |-> r.revised]
    /\ UNCHANGED <<crossword, pc, queue, ac3_ret, assignment, stack, result>>

CallAc3 ==
    /\ pc = "called"
    /\ LET r == ac3(domains)
       IN  /\ domains' = r.domains
           /\ ac3_ret' = IF r.ret THEN "True" ELSE "False"
           /\ call' = [op |-> "ac3", pre |-> domains, ret |-> r.ret,
                       after |-> IF call.op = "ac3" THEN ac3_ret ELSE "other"]
    /\ UNCHANGED <<crossword, pc, queue, assignment, stack, result>>

CallsNext ==
    \/ CallEnforceNodeConsistency
    \/ CallRevise
    \/ CallAc3

CallsSpec == Init /\ [][CallsNext]_vars

----------------------------------------------------------------------------
(* ac3() with the worklist read in any order: the loop of ac3() with        *)
(* queue.pop(0) replaced by the removal of an arbitrary arc of the queue.  *)

Without(q, n) == SubSeq(q, 1, n - 1) \o SubSeq(q, n + 1, Len(q))

Ac3StepAnyOrder ==
    /\ pc = "ac3_loop"
    /\ \E n \in DOMAIN queue :
          LET X == queue[n][1]
              Y == queue[n][2]
              r == revise(domains, X, Y)
          IN  /\ domains' = r.domains
              /\ call' = [op |-> "revise", x |-> X, y |-> Y, pre |-> domains,
                          ret |-> r.revised]
              /\ IF r.revised /\ r.domains[X] = {}
                 THEN /\ ac3_ret' = "False"
                      /\ pc' = "backtrack"
                      /\ queue' = Without(queue, n)
                 ELSE /\ UNCHANGED <<ac3_ret, pc>>
                      /\ IF r.revised
                         THEN \E zs \in Requeue(X, Y) : queue' = Without(queue, n) \o zs
                         ELSE queue' = Without(queue, n)
    /\ UNCHANGED <<crossword, assignment, stack, result>>

AnyOrderNext ==
    \/ EnforceNodeConsistency
    \/ Ac3Begin
    \/ Ac3StepAnyOrder
    \/ Ac3End

AnyOrderSpec == Init /\ [][AnyOrderNext]_vars

----------------------------------------------------------------------------
(* What the claims speak of. *)

\* the words node consistency leaves to v out of the vocabulary
RightLength(v) == {w \in crossword.words : Len(w) = crossword.length[v]}

\* the constraints of the puzzle among the variables that asg assigns
LengthsFit(asg) == \A v \in DOMAIN asg : Len(asg[v]) = crossword.length[v]

AllDistinct(asg) == \A x, y \in DOMAIN asg : x # y => asg[x] # asg[y]

OverlapsAgree(asg) ==
    \A x, y \in DOMAIN asg :
        (x # y /\ crossword.overlaps[<<x, y>>] # None)
            => asg[x][crossword.overlaps[<<x, y>>][1]]
                   = asg[y][crossword.overlaps[<<x, y>>][2]]

Satisfies(asg) == LengthsFit(asg) /\ AllDistinct(asg) /\ OverlapsAgree(asg)

\* some complete assignment of vocabulary words satisfies every constraint
SolutionExists == \E asg \in [Vars -> crossword.words] : Satisfies(asg)

Crossing == \E x \in Vars : neighbors(x) # {}

\* every word of domains[x] has a support in the domain of each neighbour
ArcConsistent(dom) ==
    \A x \in Vars : \A y \in neighbors(x) : \A w \in dom[x] :
        \E w2 \in dom[y] :
            w[crossword.overlaps[<<x, y>>][1]] = w2[crossword.overlaps[<<x, y>>][2]]

\* the score of w for var: the neighbours of var whose domain holds w
Score(var, w) == Cardinality({n \in neighbors(var) : w \in domains[n]})

NonDecreasing(var, values) ==
    \A a, b \in DOMAIN values : a < b => Score(var, values[a]) <= Score(var, values[b])

EachOnce(var, values) ==
    /\ {values[k] : k \in DOMAIN values} = domains[var]
    /\ Len(values) = Cardinality(domains[var])

----------------------------------------------------------------------------
(* C1: an assignment that solve() returns assigns every variable, each     *)
(* word has the length of its variable, the words are pairwise distinct    *)
(* and crossing variables agree at their overlap.                          *)
C1_Soundness ==
    result.kind = "assignment" =>
        /\ DOMAIN result.value = Vars
        /\ Satisfies(result.value)

\* solve() returned an assignment for a puzzle with a crossing in which some
\* slot had more than one word of its length to choose from
C1_Witness ==
    /\ pc = "done"
    /\ result.kind = "assignment"
    /\ Crossing
    /\ \E x \in Vars : neighbors(x) # {} /\ Cardinality(RightLength(x)) > 1

(* C2: solve() returns None exactly when no complete assignment satisfies  *)
(* the length, uniqueness and overlap constraints.                         *)
C2_Complete ==
    pc = "done" => (result = NoSolution <=> ~SolutionExists)

(* C3: when ac3() returns False, backtrack() is not invoked and solve()    *)
(* returns None.                                                           *)
C3_FailureStopsSolve ==
    ac3_ret = "False" =>
        /\ pc # "bt_loop"
        /\ stack = <<>>
        /\ pc = "done" => result = NoSolution

(* C4: consistent(assignment) is true exactly when the assigned variables  *)
(* satisfy the length, uniqueness and overlap constraints among            *)
(* themselves; unassigned neighbours and their domains do not matter.      *)
C4_ConsistentAmongAssigned ==
    call.op = "consistent" => (call.ret <=> Satisfies(call.assignment))

(* C5: order_domain_values(var, assignment) returns every word of          *)
(* domains[var] exactly once, in non-decreasing order of score.            *)
C5_OrderedByScore ==
    \A f \in DOMAIN stack :
        /\ EachOnce(stack[f].var, stack[f].values)
        /\ NonDecreasing(stack[f].var, stack[f].values)

(* C6: after enforce_node_consistency() and an ac3() that returned True,   *)
(* every word of every domain has a support in the domain of each          *)
(* neighbour of its variable.                                              *)
C6_ArcConsistent ==
    ac3_ret = "True" => ArcConsistent(domains)

\* ac3() returned True after it removed a word from the domain of a variable
\* that has a neighbour
C6_Witness ==
    /\ ac3_ret = "True"
    /\ \E x \in Vars : neighbors(x) # {} /\ domains[x] # RightLength(x)

(* C7: ac3() returns False if and only if some domain is empty when it     *)
(* returns; when it returns True every domain is non-empty.                *)
C7_FalseIffEmptyDomain ==
    (pc = "backtrack" /\ ac3_ret # "pending") =>
        (ac3_ret = "False" <=> \E v \in Vars : domains[v] = {})

(* C8: after enforce_node_consistency(), domains[v] is exactly the set of  *)
(* the words of the previous domains[v] whose length is v.length.          *)
C8_NodeConsistent ==
    call.op = "enforce_node_consistency" =>
        \A v \in Vars :
            domains[v] = {w \in call.pre[v] : Len(w) = crossword.length[v]}

\* enforce_node_consistency() has removed a word from a domain and kept
\* another one
C8_Witness ==
    /\ pc = "ac3"
    /\ call.op = "enforce_node_consistency"
    /\ \E v \in Vars : domains[v] # {} /\ domains[v] # call.pre[v]

(* C9: revise(x, y) returns False and changes nothing when x and y do not  *)
(* overlap; otherwise it leaves in domains[x] exactly the words that have  *)
(* a support in domains[y], and it returns True if and only if it removed  *)
(* a word.                                                                 *)
C9_Revise ==
    call.op = "revise" =>
        LET o == crossword.overlaps[<<call.x, call.y>>]
            supported == {w \in call.pre[call.x] :
                             \E w2 \in call.pre[call.y] : w[o[1]] = w2[o[2]]}
        IN  IF o = None
            THEN call.ret = FALSE /\ domains = call.pre
            ELSE /\ domains[call.x] = supported
                 /\ call.ret = (domains[call.x] # call.pre[call.x])

\* revise(x, y) has removed a word from domains[x] and kept another one
C9_Witness ==
    /\ call.op = "revise"
    /\ call.ret = TRUE
    /\ domains[call.x] # {}
    /\ domains[call.x] # call.pre[call.x]

(* C10: ac3() terminates: once it has started, it returns; and an          *)
(* iteration of its loop that leaves the worklist no shorter has removed   *)
(* a word from a domain.                                                   *)
C10_Ac3Terminates ==
    /\ (pc = "ac3") ~> (ac3_ret # "pending")
    /\ [][(pc = "ac3_loop" /\ queue # <<>> /\ Len(queue') >= Len(queue))
            => /\ domains'[Head(queue)[1]] # domains[Head(queue)[1]]
               /\ domains'[Head(queue)[1]] \subseteq domains[Head(queue)[1]]]_vars

\* ac3() has returned True after it shrank the domain of a variable with two
\* neighbours, which re-enqueued an arc
C10_Witness ==
    /\ pc = "backtrack"
    /\ ac3_ret = "True"
    /\ \E x \in Vars : Cardinality(neighbors(x)) = 2 /\ domains[x] # RightLength(x)

(* C11: enforce_node_consistency() run again after it has run changes no   *)
(* domain; ac3() run again right after an ac3() that returned True changes *)
(* no domain and returns True again.                                       *)
C11_Idempotent ==
    /\ (call.op = "enforce_node_consistency" /\ call.again) => domains = call.pre
    /\ (call.op = "ac3" /\ call.after = "True") => (call.ret /\ domains = call.pre)

\* ac3() has run again right after a run that returned True and that had
\* removed a word from the domain of a variable with a neighbour
C11_Witness ==
    /\ call.op = "ac3"
    /\ call.after = "True"
    /\ \E x \in Vars : neighbors(x) # {} /\ domains[x] # {} /\ domains[x] # RightLength(x)

(* C12: solve() ends with a complete assignment or with None and never     *)
(* with a fault; it returns None when the puzzle has no solution and when  *)
(* some variable has no vocabulary word of its length.                     *)
C12_TwoOutcomes ==
    /\ pc # "fault"
    /\ pc = "done" =>
          \/ result = NoSolution
          \/ result.kind = "assignment" /\ DOMAIN result.value = Vars
    /\ (pc = "done" /\ ~SolutionExists) => result = NoSolution
    /\ (pc = "done" /\ \E v \in Vars : RightLength(v) = {}) => result = NoSolution

\* solve() returned None for a puzzle in which one variable has no word of
\* its length and another variable has one
C12_Witness ==
    /\ pc = "done"
    /\ result = NoSolution
    /\ \E v, w \in Vars : RightLength(v) = {} /\ RightLength(w) # {}

(* C13: select_unassigned_variable(assignment) returns a variable that is  *)
(* not assigned, whose domain is the smallest among the unassigned         *)
(* variables, and which has the most neighbours among the unassigned       *)
(* variables with a domain of that size.                                   *)
C13_SelectVariable ==
    (pc = "bt_loop" /\ Top.k = 1) =>
        LET unassigned == Vars \ DOMAIN assignment
        IN  /\ Top.var \in unassigned
            /\ \A u \in unassigned :
                  Cardinality(domains[Top.var]) <= Cardinality(domains[u])
            /\ \A u \in unassigned :
                  Cardinality(domains[u]) = Cardinality(domains[Top.var])
                      => Cardinality(neighbors(u)) <= Cardinality(neighbors(Top.var))

\* a variable was selected while some variable is assigned and two unassigned
\* variables with the smallest domain differ in their number of neighbours
C13_Witness ==
    /\ pc = "bt_loop"
    /\ Top.k = 1
    /\ assignment # EmptyAssignment
    /\ \E u \in Vars \ DOMAIN assignment :
          /\ Cardinality(domains[u]) = Cardinality(domains[Top.var])
          /\ Cardinality(neighbors(u)) < Cardinality(neighbors(Top.var))

(* C14: backtrack() undoes its tentative assignments in stack order: when  *)
(* a call is between two candidate values or returns None, the assignment  *)
(* is the one the call was entered with; each call was entered with the    *)
(* assignment of its caller plus the caller's tentative value.             *)
C14_UndoInStackOrder ==
    /\ pc = "bt_loop" => assignment = Top.entry
    /\ \A d \in 1..(Len(stack) - 1) :
          stack[d + 1].entry
              = Assign(stack[d].entry, stack[d].var, stack[d].values[stack[d].k])
    /\ (pc = "done" /\ result = NoSolution) => assignment = EmptyAssignment

\* a nested call has tried a value, found it inconsistent and run out of
\* values: it is about to return None
C14_Witness ==
    /\ pc = "bt_loop"
    /\ Len(stack) >= 2
    /\ Top.values # <<>>
    /\ Top.k > Len(Top.values)
    /\ call.op = "consistent"
    /\ call.ret = FALSE

(* C15: no step of solve() adds a word to a domain, and no step of the     *)
(* search (backtrack, consistent, select_unassigned_variable,              *)
(* order_domain_values) changes a domain.                                  *)
C15_DomainsOnlyShrink ==
    [][/\ \A v \in Vars : domains'[v] \subseteq domains[v]
       /\ pc \in {"backtrack", "bt_loop"} => domains' = domains]_vars

\* the search has assigned a variable after propagation removed a word that
\* node consistency had left in a domain
C15_Witness ==
    /\ pc = "bt_loop"
    /\ assignment # EmptyAssignment
    /\ \E x \in Vars : domains[x] # RightLength(x)

(* C16: revise(x, y) leaves the domain of y and of every variable other    *)
(* than x as it was, whether it made a revision or not.                    *)
C16_ReviseFrame ==
    call.op = "revise" =>
        \A v \in Vars \ {call.x} : domains[v] = call.pre[v]

\* revise(x, y) has removed a word from domains[x] while domains[y] holds a
\* word that no word of the previous domains[x] supports
C16_Witness ==
    /\ call.op = "revise"
    /\ call.ret = TRUE
    /\ \E val_y \in domains[call.y] : \A val_x \in call.pre[call.x] :
          val_x[crossword.overlaps[<<call.x, call.y>>][1]]
              # val_y[crossword.overlaps[<<call.x, call.y>>][2]]

(* C17: the result of AC-3 does not depend on the order in which the arcs  *)
(* are taken from the worklist: every order returns what ac3() returns     *)
(* from the same node-consistent domains, and when that is True every      *)
(* order ends with the domains ac3() ends with.                            *)
C17_OrderIndependent ==
    (pc = "backtrack" /\ ac3_ret # "pending") =>
        LET fifo == ac3(enforce_node_consistency([v \in Vars |-> crossword.words]))
        IN  /\ (ac3_ret = "True") = fifo.ret
            /\ fifo.ret => domains = fifo.domains

\* propagation over some order of the arcs has returned True after it
\* removed a word of the right length from the domain of a variable that
\* has two neighbours, each domain keeping a word
C17_Witness ==
    /\ pc = "backtrack"
    /\ ac3_ret = "True"
    /\ call.op = "revise"
    /\ \A v \in Vars : domains[v] # {}
    /\ \E x \in Vars : Cardinality(neighbors(x)) = 2 /\ domains[x] # RightLength(x)

(* C18: every partial assignment backtrack() is called with satisfies the  *)
(* constraints among the variables it assigns: each word has the length of *)
(* its variable, the words are pairwise distinct, and assigned neighbours  *)
(* agree at their overlap.                                                 *)
C18_RecursesOnConsistent ==
    /\ pc = "backtrack" => Satisfies(assignment)
    /\ \A f \in DOMAIN stack : Satisfies(stack[f].entry)

\* the second recursive call of backtrack(): two crossing variables are
\* assigned, a third is not, and the vocabulary has more than one word of the
\* length of the first
C18_Witness ==
    /\ pc = "backtrack"
    /\ Len(stack) = 2
    /\ Cardinality(DOMAIN assignment) = 2
    /\ \E x \in DOMAIN assignment : \E y \in DOMAIN assignment : y \in neighbors(x)
    /\ Cardinality(RightLength(stack[1].var)) > 1

(* C19: backtrack() called with the empty assignment always ends, with a   *)
(* complete assignment returned or with every value exhausted and None     *)
(* returned; the number of assigned variables and the depth of the         *)
(* recursion never exceed the number of variables.                         *)
C19_BacktrackTerminates ==
    /\ (pc = "backtrack" /\ stack = <<>> /\ assignment = EmptyAssignment)
          ~> (/\ pc = "done"
              /\ \/ result = NoSolution
                 \/ result.kind = "assignment" /\ assignment_complete(result.value))
    /\ [](/\ Cardinality(DOMAIN assignment) <= Cardinality(Vars)
          /\ Len(stack) <= Cardinality(Vars))

\* backtrack() returned None after propagation left a word in every domain:
\* the search assigned a variable, recursed, and exhausted every value
C19_Witness ==
    /\ pc = "done"
    /\ result = NoSolution
    /\ ac3_ret = "True"
    /\ \A v \in Vars : domains[v] # {}
    /\ call.op = "consistent"
    /\ Cardinality(DOMAIN call.assignment) >= 2

====
